---- MODULE Spec2Model ----
(***************************************************************************)
(* A model of cli-calculator.py: tokenize, apply_operator and evaluate,    *)
(* and the loop of main that reads lines and calls them.                   *)
(*                                                                         *)
(* Characters are one-character strings, a text is a sequence of them and  *)
(* a token is the text the regular expression matched.  Python floats are  *)
(* modelled as exact rationals in lowest terms; a result that is not       *)
(* rational (sqrt(2), pi, ln(3)) is a symbolic term over rationals.        *)
(***************************************************************************)
EXTENDS Integers, Sequences, FiniteSets, TLC

VARIABLES expression, tokens, i, values, operators, pc, result, err,
          host, user_input, last_result, history, eof, lines, printed

\* the state of one call of evaluate
evars == <<expression, tokens, i, values, operators, pc, result, err>>

\* the state of main: where it is, the line it read, last_result, the
\* history file, whether standard input has ended, the lines read so far and
\* what was printed last
hvars == <<host, user_input, last_result, history, eof, lines, printed>>

vars == <<evars, hvars>>

(***************************************************************************)
(* Bounds of the model.                                                    *)
(***************************************************************************)
\* largest numerator or denominator a value of the model may have
MaxAbs == 5000
\* longest input of the free family, in lexemes
MaxLex == 3
\* most operands of an input of the flat family  a op b op c ...
MaxOperands == 3

(***************************************************************************)
(* Numbers.                                                                *)
(***************************************************************************)
Abs(x) == IF x < 0 THEN -x ELSE x

Sign(x) == IF x < 0 THEN -1 ELSE IF x = 0 THEN 0 ELSE 1

RECURSIVE GCD(_, _)
GCD(a, b) == IF b = 0 THEN a ELSE GCD(b, a % b)

\* floor of the square root of a natural number
RECURSIVE ISqrtFrom(_, _)
ISqrtFrom(x, r) == IF (r + 1) * (r + 1) > x THEN r ELSE ISqrtFrom(x, r + 1)

ISqrt(x) == ISqrtFrom(x, 0)

IsSquare(x) == x >= 0 /\ ISqrt(x) * ISqrt(x) = x

\* the rational n/d, d # 0, in lowest terms with a positive denominator
Rat(n, d) ==
    LET g == GCD(Abs(n), Abs(d))
        s == IF d < 0 THEN -1 ELSE 1
    IN  [n |-> s * (n \div g), d |-> s * (d \div g), t |-> <<>>]

\* a value that is not rational: the term  name(args)
Sym(name, args) == [n |-> 0, d |-> 0, t |-> <<name>> \o args]

IsRat(v) == v.t = <<>>

Zero == Rat(0, 1)

\* what the comparisons of a value with 0 see, for a value of known sign:
\* a rational, a constant, a root, a logarithm of a rational, and a sum,
\* product or quotient of such values when their signs decide it
RECURSIVE Sgn(_)
Sgn(v) ==
    IF IsRat(v) THEN Sign(v.n)
    ELSE IF v.t[1] \in {"log", "ln"} THEN Sign(v.t[2].n - v.t[2].d)
    ELSE IF v.t[1] = "add" THEN
        (IF Sgn(v.t[2]) = 0 THEN Sgn(v.t[3]) ELSE Sgn(v.t[2]))
    ELSE IF v.t[1] \in {"mul", "div"} THEN Sgn(v.t[2]) * Sgn(v.t[3])
    ELSE 1

RECURSIVE SignKnown(_)
SignKnown(v) ==
    \/ IsRat(v)
    \/ v.t[1] \in {"pi", "e", "sqrt"}
    \/ (v.t[1] \in {"log", "ln"} /\ IsRat(v.t[2]))
    \/ /\ v.t[1] \in {"add", "mul", "div"}
       /\ SignKnown(v.t[2]) /\ SignKnown(v.t[3])
       /\ v.t[1] = "add" => Sgn(v.t[2]) * Sgn(v.t[3]) >= 0

\* the value is one the model represents: bounded numerator and denominator
InRange(v) == IsRat(v) => (Abs(v.n) <= MaxAbs /\ v.d <= MaxAbs)

(***************************************************************************)
(* Arithmetic of apply_operator on values.  The operands of the rational   *)
(* cases are in range, so no product below leaves TLC's integers.          *)
(***************************************************************************)
AddV(l, r) ==
    IF IsRat(l) /\ IsRat(r) THEN Rat(l.n * r.d + r.n * l.d, l.d * r.d)
    ELSE Sym("add", <<l, r>>)

SubV(l, r) ==
    IF IsRat(l) /\ IsRat(r) THEN Rat(l.n * r.d - r.n * l.d, l.d * r.d)
    ELSE Sym("sub", <<l, r>>)

MulV(l, r) ==
    IF IsRat(l) /\ IsRat(r) THEN Rat(l.n * r.n, l.d * r.d)
    ELSE Sym("mul", <<l, r>>)

\* left / right for right # 0
DivV(l, r) ==
    IF IsRat(l) /\ IsRat(r) THEN Rat(l.n * r.d, l.d * r.n)
    ELSE Sym("div", <<l, r>>)

\* Python's left % right for right # 0: left - right * floor(left / right)
ModV(l, r) ==
    IF IsRat(l) /\ IsRat(r)
    THEN LET q == DivV(l, r)
             f == q.n \div q.d
         IN  Rat(l.n * r.d - f * r.n * l.d, l.d * r.d)
    ELSE Sym("mod", <<l, r>>)

\* b^e for a natural e, stopping once the magnitude leaves the range
RECURSIVE PowIter(_, _, _)
PowIter(b, e, acc) ==
    IF e = 0 \/ Abs(acc) > MaxAbs THEN acc ELSE PowIter(b, e - 1, acc * b)

IntPow(b, e) ==
    IF e = 0 THEN 1
    ELSE IF b = 0 THEN 0
    ELSE IF b = 1 THEN 1
    ELSE IF b = -1 THEN (IF e % 2 = 0 THEN 1 ELSE -1)
    ELSE PowIter(b, e, 1)

\* left ** right, except 0 to a negative power
PowV(l, r) ==
    IF IsRat(l) /\ IsRat(r) /\ r.d = 1
    THEN IF r.n >= 0
         THEN [n |-> IntPow(l.n, r.n), d |-> IntPow(l.d, r.n), t |-> <<>>]
         ELSE LET s == IF l.n < 0 /\ (-r.n) % 2 = 1 THEN -1 ELSE 1
              IN  [n |-> s * IntPow(l.d, -r.n), d |-> IntPow(Abs(l.n), -r.n),
                   t |-> <<>>]
    ELSE Sym("pow", <<l, r>>)

\* the powers of ten in range, with their exponents
RECURSIVE Log10From(_, _, _)
Log10From(x, p, k) ==
    IF p = x THEN k ELSE IF p > x THEN -1 ELSE Log10From(x, p * 10, k + 1)

\* math.sqrt for a value >= 0
SqrtV(v) ==
    IF IsRat(v) /\ IsSquare(v.n) /\ IsSquare(v.d)
    THEN Rat(ISqrt(v.n), ISqrt(v.d))
    ELSE Sym("sqrt", <<v>>)

\* math.log10 for a value > 0
Log10V(v) ==
    IF IsRat(v) /\ v.d = 1 /\ Log10From(v.n, 1, 0) >= 0
    THEN Rat(Log10From(v.n, 1, 0), 1)
    ELSE IF IsRat(v) /\ v.n = 1 /\ Log10From(v.d, 1, 0) >= 0
    THEN Rat(-Log10From(v.d, 1, 0), 1)
    ELSE Sym("log", <<v>>)

\* math.log for a value > 0
LnV(v) ==
    IF v = Rat(1, 1) THEN Zero
    ELSE IF v = Sym("e", <<>>) THEN Rat(1, 1)
    ELSE Sym("ln", <<v>>)

AbsV(v) ==
    IF IsRat(v) THEN Rat(Abs(v.n), v.d)
    ELSE IF SignKnown(v) /\ Sgn(v) = 1 THEN v
    ELSE Sym("abs", <<v>>)

SinV(v) == IF v = Zero THEN Zero ELSE Sym("sin", <<v>>)

CosV(v) == IF v = Zero THEN Rat(1, 1) ELSE Sym("cos", <<v>>)

TanV(v) == IF v = Zero THEN Zero ELSE Sym("tan", <<v>>)

(***************************************************************************)
(* Exceptions.                                                             *)
(***************************************************************************)
NoErr == [cls |-> "none", msg |-> ""]

ValueError(m) == [cls |-> "ValueError", msg |-> m]

ZeroDivisionError(m) == [cls |-> "ZeroDivisionError", msg |-> m]

NotEnoughFn == ValueError("Not enough operands for function")

NotEnoughOp == ValueError("Not enough operands for operator")

NegativeSqrt == ValueError("Cannot take square root of negative number")

NonPositiveLog == ValueError("Cannot take log of non-positive number")

NonPositiveLn == ValueError("Cannot take natural log of non-positive number")

DivisionByZero == ValueError("Division by zero")

MismatchedParens == ValueError("Mismatched parentheses")

UnknownToken == ValueError("Unknown token")

InvalidExpression == ValueError("Invalid expression")

FloatModulo == ZeroDivisionError("float modulo")

ZeroToNegative == ZeroDivisionError("0.0 cannot be raised to a negative power")

(***************************************************************************)
(* tokenize: the spaces are removed, then re.findall collects the matches  *)
(* of the pattern from left to right and steps over a character at which   *)
(* no alternative matches.                                                 *)
(***************************************************************************)
Digits == {"0", "1", "2", "3", "4", "5", "6", "7", "8", "9"}

\* the character class [-+*/()^%]
SymbolChars == {"-", "+", "*", "/", "(", ")", "^", "%"}

\* the keyword alternatives, in the pattern's order
Keywords ==
    << <<"s", "i", "n">>, <<"c", "o", "s">>, <<"t", "a", "n">>,
       <<"s", "q", "r", "t">>, <<"l", "o", "g">>, <<"l", "n">>,
       <<"a", "b", "s">>, <<"p", "i">>, <<"e">> >>

FunctionNames ==
    { <<"s", "i", "n">>, <<"c", "o", "s">>, <<"t", "a", "n">>,
      <<"s", "q", "r", "t">>, <<"l", "o", "g">>, <<"l", "n">>,
      <<"a", "b", "s">> }

ConstantNames == { <<"p", "i">>, <<"e">> }

\* expression.replace(" ", "")
RemoveSpaces(s) == SelectSeq(s, LAMBDA c : c # " ")

\* the length of the run of digits that starts at position p
RECURSIVE DigitRun(_, _)
DigitRun(s, p) ==
    IF p <= Len(s) /\ s[p] \in Digits THEN 1 + DigitRun(s, p + 1) ELSE 0

\* w is a prefix of s from position p
PrefixAt(s, p, w) ==
    /\ p + Len(w) - 1 <= Len(s)
    /\ SubSeq(s, p, p + Len(w) - 1) = w

\* the length of the match of the pattern at position p, 0 if there is none
MatchLen(s, p) ==
    LET k == DigitRun(s, p)
        f == DigitRun(s, p + k + 1)
    IN  IF p + k <= Len(s) /\ s[p + k] = "." /\ f >= 1 THEN k + 1 + f
        ELSE IF k >= 1 THEN k
        ELSE IF s[p] \in SymbolChars THEN 1
        ELSE IF \E j \in 1..Len(Keywords) : PrefixAt(s, p, Keywords[j])
        THEN LET j == CHOOSE j \in 1..Len(Keywords) :
                          /\ PrefixAt(s, p, Keywords[j])
                          /\ \A h \in 1..(j - 1) : ~PrefixAt(s, p, Keywords[h])
             IN  Len(Keywords[j])
        ELSE 0

\* re.findall: the matches from left to right, from position p on; a
\* character at which nothing matches is passed over
FindAll(s, p) ==
    LET rest[q \in 1..(Len(s) + 1)] ==
            IF q > Len(s) THEN <<>>
            ELSE LET m == MatchLen(s, q)
                 IN  IF m = 0 THEN rest[q + 1]
                     ELSE <<SubSeq(s, q, q + m - 1)>> \o rest[q + m]
    IN  rest[p]

tokenize(s) == FindAll(RemoveSpaces(s), 1)

\* str.lower on the letters the inputs of the model use
UpperChars ==
    <<"A", "B", "C", "D", "E", "F", "G", "H", "I", "J", "K", "L", "M",
      "N", "O", "P", "Q", "R", "S", "T", "U", "V", "W", "X", "Y", "Z">>

LowerChars ==
    <<"a", "b", "c", "d", "e", "f", "g", "h", "i", "j", "k", "l", "m",
      "n", "o", "p", "q", "r", "s", "t", "u", "v", "w", "x", "y", "z">>

LowerChar(c) ==
    IF \E k \in 1..Len(UpperChars) : UpperChars[k] = c
    THEN LowerChars[CHOOSE k \in 1..Len(UpperChars) : UpperChars[k] = c]
    ELSE c

Lower(s) == [k \in 1..Len(s) |-> LowerChar(s[k])]

(***************************************************************************)
(* The tests of evaluate on a token, and float(token).                     *)
(***************************************************************************)
\* re.match(r'^(\d*\.\d+|\d+)$', token)
IsNumber(tok) == Len(tok) >= 1 /\ MatchLen(tok, 1) = Len(tok) /\
                 (tok[1] \in Digits \/ tok[1] = ".")

\* token in '+-*/^%': the token is a substring of that string
OperatorString == <<"+", "-", "*", "/", "^", "%">>

InOperatorString(tok) ==
    \E p \in 1..(Len(OperatorString) + 1) : PrefixAt(OperatorString, p, tok)

DigitVal(c) == CHOOSE k \in 0..9 : <<"0", "1", "2", "3", "4", "5", "6", "7", "8", "9">>[k + 1] = c

\* the digits of a numeral read as a natural number, capped above the range
RECURSIVE DigitsVal(_, _)
DigitsVal(s, acc) ==
    IF s = <<>> \/ acc > MaxAbs THEN acc
    ELSE IF Head(s) = "." THEN DigitsVal(Tail(s), acc)
    ELSE DigitsVal(Tail(s), 10 * acc + DigitVal(Head(s)))

\* the number of digits after the point
FracDigits(s) ==
    IF \E k \in 1..Len(s) : s[k] = "."
    THEN Len(s) - (CHOOSE k \in 1..Len(s) : s[k] = ".")
    ELSE 0

\* float(token) for a token that IsNumber
Float(tok) ==
    LET num == DigitsVal(tok, 0)
        den == IntPow(10, FracDigits(tok))
    IN  IF num > MaxAbs \/ den > MaxAbs
        THEN [n |-> num, d |-> den, t |-> <<>>]
        ELSE Rat(num, den)

\* precedence with * given the rank of + and -
precedenceTimesLow(op) ==
    IF op \in {<<"+">>, <<"-">>, <<"*">>} THEN 1
    ELSE IF op \in {<<"/">>, <<"%">>} THEN 2
    ELSE IF op = <<"^">> THEN 3
    ELSE 0

precedence(op) ==
    IF op \in {<<"+">>, <<"-">>} THEN 1
    ELSE IF op \in {<<"*">>, <<"/">>, <<"%">>} THEN 2
    ELSE IF op = <<"^">> THEN 3
    ELSE 0

InPrecedence(op) == precedence(op) > 0

(***************************************************************************)
(* apply_operator(operators, values): the two stacks as it leaves them,    *)
(* the exception it raises (NoErr if none) and whether the model computes  *)
(* the step (ok): it does not when a comparison needs a sign the model     *)
(* does not know.                                                          *)
(***************************************************************************)
Top(st) == st[Len(st)]

Pop(st) == SubSeq(st, 1, Len(st) - 1)

Outcome(ops, vals, e) == [ops |-> ops, vals |-> vals, err |-> e, ok |-> TRUE]

NotModelled(ops, vals) == [ops |-> ops, vals |-> vals, err |-> NoErr, ok |-> FALSE]

\* NotEnough with a return for the raise: the operator is dropped silently
NotEnoughIgnored(ops, values0, e) == Outcome(ops, values0, NoErr)

\* lines 35-36 and 69-70: too few operands, the exception e is raised
NotEnough(ops, values0, e) == Outcome(ops, values0, e)

\* DomainError with < for <= in the test of log: log(0) is let through
DomainErrorLogStrict(operator, value) ==
    IF operator = <<"s", "q", "r", "t">> /\ Sgn(value) < 0 THEN NegativeSqrt
    ELSE IF operator = <<"l", "o", "g">> /\ Sgn(value) < 0 THEN NonPositiveLog
    ELSE IF operator = <<"l", "n">> /\ Sgn(value) <= 0 THEN NonPositiveLn
    ELSE NoErr

\* lines 47-48, 51-52, 55-56: the exception that the domain test of sqrt,
\* log or ln raises for a value of known sign, NoErr if it raises none
DomainError(operator, value) ==
    IF operator = <<"s", "q", "r", "t">> /\ Sgn(value) < 0 THEN NegativeSqrt
    ELSE IF operator = <<"l", "o", "g">> /\ Sgn(value) <= 0 THEN NonPositiveLog
    ELSE IF operator = <<"l", "n">> /\ Sgn(value) <= 0 THEN NonPositiveLn
    ELSE NoErr

\* lines 34-60: a function name on top of the operator stack, already popped
ApplyFunction(operator, ops, values0) ==
    IF values0 = <<>> THEN NotEnough(ops, values0, NotEnoughFn)
    ELSE LET value == Top(values0)
             vals  == Pop(values0)
         IN  IF operator = <<"s", "i", "n">>
                 THEN Outcome(ops, Append(vals, SinV(value)), NoErr)
             ELSE IF operator = <<"c", "o", "s">>
                 THEN Outcome(ops, Append(vals, CosV(value)), NoErr)
             ELSE IF operator = <<"t", "a", "n">>
                 THEN Outcome(ops, Append(vals, TanV(value)), NoErr)
             ELSE IF operator = <<"a", "b", "s">>
                 THEN Outcome(ops, Append(vals, AbsV(value)), NoErr)
             ELSE IF ~SignKnown(value) THEN NotModelled(ops, vals)
             ELSE IF DomainError(operator, value) # NoErr
                 THEN Outcome(ops, vals, DomainError(operator, value))
             ELSE IF operator = <<"s", "q", "r", "t">>
                 THEN Outcome(ops, Append(vals, SqrtV(value)), NoErr)
             ELSE IF operator = <<"l", "o", "g">>
                 THEN Outcome(ops, Append(vals, Log10V(value)), NoErr)
             ELSE Outcome(ops, Append(vals, LnV(value)), NoErr)

\* Divide without the test of lines 82-83: the division itself raises
DivideUnguarded(ops, vals, left, right) ==
    IF Sgn(right) = 0
    THEN Outcome(ops, vals, ZeroDivisionError("float division by zero"))
    ELSE Outcome(ops, Append(vals, DivV(left, right)), NoErr)

\* lines 81-84: left / right, for a right operand of known sign
Divide(ops, vals, left, right) ==
    IF Sgn(right) = 0 THEN Outcome(ops, vals, DivisionByZero)
    ELSE Outcome(ops, Append(vals, DivV(left, right)), NoErr)

\* lines 69-88: a binary operator on top of the operator stack, already popped
ApplyBinary(operator, ops, values0) ==
    IF Len(values0) < 2 THEN NotEnough(ops, values0, NotEnoughOp)
    ELSE LET right == Top(values0)
             left  == Top(Pop(values0))
             vals  == Pop(Pop(values0))
         IN  IF operator = <<"+">>
                 THEN Outcome(ops, Append(vals, AddV(left, right)), NoErr)
             ELSE IF operator = <<"-">>
                 THEN Outcome(ops, Append(vals, SubV(left, right)), NoErr)
             ELSE IF operator = <<"*">>
                 THEN Outcome(ops, Append(vals, MulV(left, right)), NoErr)
             ELSE IF operator = <<"/">>
                 THEN IF ~SignKnown(right) THEN NotModelled(ops, vals)
                      ELSE Divide(ops, vals, left, right)
             ELSE IF operator = <<"^">>
                 THEN IF ~SignKnown(left) \/ ~SignKnown(right)
                          THEN NotModelled(ops, vals)
                      ELSE IF Sgn(left) = 0 /\ Sgn(right) < 0
                          THEN Outcome(ops, vals, ZeroToNegative)
                      ELSE Outcome(ops, Append(vals, PowV(left, right)), NoErr)
             ELSE IF operator = <<"%">>
                 THEN IF ~SignKnown(right) THEN NotModelled(ops, vals)
                      ELSE IF Sgn(right) = 0 THEN Outcome(ops, vals, FloatModulo)
                      ELSE Outcome(ops, Append(vals, ModV(left, right)), NoErr)
             ELSE Outcome(ops, vals, NoErr)

apply_operator(operators0, values0) ==
    IF operators0 = <<>> THEN Outcome(operators0, values0, NoErr)
    ELSE LET operator == Top(operators0)
             ops      == Pop(operators0)
         IN  IF operator = <<"(">> THEN Outcome(ops, values0, NoErr)
             ELSE IF operator \in FunctionNames
                 THEN ApplyFunction(operator, ops, values0)
             ELSE IF operator = <<"p", "i">>
                 THEN Outcome(ops, Append(values0, Sym("pi", <<>>)), NoErr)
             ELSE IF operator = <<"e">>
                 THEN Outcome(ops, Append(values0, Sym("e", <<>>)), NoErr)
             ELSE ApplyBinary(operator, ops, values0)

\* every value on the stack is within the range the model represents
AllInRange(vals) == \A k \in 1..Len(vals) : InRange(vals[k])

(***************************************************************************)
(* evaluate(expression) as a machine.  pc is the place in the function:    *)
(*   "start"  before tokenize           "scan"   at the head of the loop   *)
(*   "close"  in the loop of ')'        "oper"   in the loop of an operator*)
(*   "drain"  in the final loop         "done"   returned result           *)
(*   "error"  raised err                                                   *)
(* i is the 1-based index of the token being looked at.                    *)
(***************************************************************************)
token == tokens[i]

\* the effect of one call of apply_operator inside a loop that goes on at pc
ApplyAt(place) ==
    LET r == apply_operator(operators, values)
    IN  /\ r.ok
        /\ AllInRange(r.vals)
        /\ operators' = r.ops
        /\ values' = r.vals
        /\ err' = r.err
        /\ pc' = IF r.err = NoErr THEN place ELSE "error"
        /\ UNCHANGED <<expression, tokens, i, result>>
        /\ UNCHANGED hvars

Raise(e) ==
    /\ err' = e
    /\ pc' = "error"
    /\ UNCHANGED <<expression, tokens, i, values, operators, result>>
    /\ UNCHANGED hvars

\* Tokenize without lines 98-99: the stacks are those the last call left
TokenizeKeepsStacks ==
    /\ pc = "start"
    /\ tokens' = tokenize(Lower(expression))
    /\ i' = 1
    /\ pc' = "scan"
    /\ UNCHANGED <<expression, values, operators, result, err>>
    /\ UNCHANGED hvars

\* lines 93-101
Tokenize ==
    /\ pc = "start"
    /\ tokens' = tokenize(Lower(expression))
    /\ i' = 1
    /\ values' = <<>>
    /\ operators' = <<>>
    /\ pc' = "scan"
    /\ UNCHANGED <<expression, result, err>>
    /\ UNCHANGED hvars

\* lines 102-113 and 134-137: a token that is handled without a loop.  The
\* last branch raises 'Unknown token'; no token of tokenize reaches it.
ScanPush ==
    /\ pc = "scan"
    /\ i <= Len(tokens)
    /\ token # <<")">>
    /\ IsNumber(token) \/ token \in FunctionNames \cup ConstantNames
         \/ token = <<"(">> \/ ~InOperatorString(token)
    /\ IF IsNumber(token)
       THEN /\ InRange(Float(token))
            /\ values' = Append(values, Float(token))
            /\ i' = i + 1
            /\ UNCHANGED <<operators, pc, err>>
       ELSE IF token \in FunctionNames \cup ConstantNames \/ token = <<"(">>
       THEN /\ operators' = Append(operators, token)
            /\ i' = i + 1
            /\ UNCHANGED <<values, pc, err>>
       ELSE /\ err' = UnknownToken
            /\ pc' = "error"
            /\ UNCHANGED <<values, operators, i>>
    /\ UNCHANGED <<expression, tokens, result>>
    /\ UNCHANGED hvars

\* line 114: the token is ')'
ScanCloseParen ==
    /\ pc = "scan"
    /\ i <= Len(tokens)
    /\ token = <<")">>
    /\ pc' = "close"
    /\ UNCHANGED <<expression, tokens, i, values, operators, result, err>>
    /\ UNCHANGED hvars

\* lines 115-116
CloseApply ==
    /\ pc = "close"
    /\ operators # <<>>
    /\ Top(operators) # <<"(">>
    /\ ApplyAt("close")

\* lines 118-121, 137: the '(' is popped, and a function under it is applied
CloseMatch ==
    /\ pc = "close"
    /\ operators # <<>>
    /\ Top(operators) = <<"(">>
    /\ LET ops == Pop(operators)
       IN  IF ops # <<>> /\ Top(ops) \in FunctionNames
           THEN LET r == apply_operator(ops, values)
                IN  /\ r.ok
                    /\ AllInRange(r.vals)
                    /\ operators' = r.ops
                    /\ values' = r.vals
                    /\ err' = r.err
                    /\ pc' = IF r.err = NoErr THEN "scan" ELSE "error"
                    /\ i' = IF r.err = NoErr THEN i + 1 ELSE i
           ELSE /\ operators' = ops
                /\ i' = i + 1
                /\ pc' = "scan"
                /\ UNCHANGED <<values, err>>
    /\ UNCHANGED <<expression, tokens, result>>
    /\ UNCHANGED hvars

\* CloseMismatch without the raise: the ')' is passed over
CloseMismatchIgnored ==
    /\ pc = "close"
    /\ operators = <<>>
    /\ i' = i + 1
    /\ pc' = "scan"
    /\ UNCHANGED <<expression, tokens, values, operators, result, err>>
    /\ UNCHANGED hvars

\* lines 122-123
CloseMismatch ==
    /\ pc = "close"
    /\ operators = <<>>
    /\ Raise(MismatchedParens)

\* line 126: the token is a binary operator
ScanOperator ==
    /\ pc = "scan"
    /\ i <= Len(tokens)
    /\ ~IsNumber(token)
    /\ token \notin FunctionNames \cup ConstantNames \cup {<<"(">>, <<")">>}
    /\ InOperatorString(token)
    /\ pc' = "oper"
    /\ UNCHANGED <<expression, tokens, i, values, operators, result, err>>
    /\ UNCHANGED hvars

\* Reduces with > for >=: equal precedence is not reduced
ReducesStrict(ops, tok) ==
    /\ ops # <<>>
    /\ Top(ops) # <<"(">>
    /\ InPrecedence(Top(ops))
    /\ precedence(Top(ops)) > precedence(tok)

\* the condition of the loop of lines 127-129
Reduces(ops, tok) ==
    /\ ops # <<>>
    /\ Top(ops) # <<"(">>
    /\ InPrecedence(Top(ops))
    /\ precedence(Top(ops)) >= precedence(tok)

\* line 130
OperApply ==
    /\ pc = "oper"
    /\ Reduces(operators, token)
    /\ ApplyAt("oper")

\* OperPush without the i += 1 of line 137: the operator is pushed and the
\* same token is looked at again
OperPushStays ==
    /\ pc = "oper"
    /\ ~Reduces(operators, token)
    /\ operators' = Append(operators, token)
    /\ pc' = "scan"
    /\ UNCHANGED <<expression, tokens, i, values, result, err>>
    /\ UNCHANGED hvars

\* lines 132, 137
OperPush ==
    /\ pc = "oper"
    /\ ~Reduces(operators, token)
    /\ operators' = Append(operators, token)
    /\ i' = i + 1
    /\ pc' = "scan"
    /\ UNCHANGED <<expression, tokens, values, result, err>>
    /\ UNCHANGED hvars

\* line 102: the tokens are exhausted
EndScan ==
    /\ pc = "scan"
    /\ i > Len(tokens)
    /\ pc' = "drain"
    /\ UNCHANGED <<expression, tokens, i, values, operators, result, err>>
    /\ UNCHANGED hvars

\* lines 140-141
DrainApply ==
    /\ pc = "drain"
    /\ operators # <<>>
    /\ ApplyAt("drain")

\* Finish with  return values[-1]  for the test of line 143: whatever is on
\* top of the operands is returned
FinishTop ==
    /\ pc = "drain"
    /\ operators = <<>>
    /\ IF values = <<>>
       THEN /\ err' = InvalidExpression
            /\ pc' = "error"
            /\ UNCHANGED result
       ELSE /\ result' = Top(values)
            /\ pc' = "done"
            /\ UNCHANGED err
    /\ UNCHANGED <<expression, tokens, i, values, operators>>
    /\ UNCHANGED hvars

\* lines 143-146
Finish ==
    /\ pc = "drain"
    /\ operators = <<>>
    /\ IF Len(values) # 1
       THEN /\ err' = InvalidExpression
            /\ pc' = "error"
            /\ UNCHANGED result
       ELSE /\ result' = values[1]
            /\ pc' = "done"
            /\ UNCHANGED err
    /\ UNCHANGED <<expression, tokens, i, values, operators>>
    /\ UNCHANGED hvars

Next ==
    \/ Tokenize
    \/ ScanPush
    \/ ScanCloseParen
    \/ CloseApply
    \/ CloseMatch
    \/ CloseMismatch
    \/ ScanOperator
    \/ OperApply
    \/ OperPush
    \/ EndScan
    \/ DrainApply
    \/ Finish

(***************************************************************************)
(* The expressions given to evaluate.  A lexeme is a numeral, a symbol, a  *)
(* keyword or a character that no token pattern matches; an input is a     *)
(* concatenation of lexemes.                                               *)
(***************************************************************************)
RECURSIVE Cat(_)
Cat(ss) == IF ss = <<>> THEN <<>> ELSE Head(ss) \o Cat(Tail(ss))

Lexemes ==
    { <<"0">>, <<"1">>, <<"2">>, <<"+">>, <<"/">>, <<"(">>, <<")">>,
      <<"l", "n">>, <<"p", "i">>, <<" ">>, <<"&">>, <<".">> }

\* every concatenation of at most MaxLex lexemes
FreeInputs ==
    UNION { { Cat(ls) : ls \in [1..k -> Lexemes] } : k \in 0..MaxLex }

Numerals == { <<"0">>, <<"2">>, <<"3">> }

BinaryOperators == { <<"+">>, <<"-">>, <<"*">>, <<"/">>, <<"^">>, <<"%">> }

\* a op b op c ... with k operands
RECURSIVE FlatOf(_)
FlatOf(k) ==
    IF k = 1 THEN Numerals
    ELSE { f \o op \o n : f \in FlatOf(k - 1), op \in BinaryOperators, n \in Numerals }

FlatInputs == UNION { FlatOf(k) : k \in 1..MaxOperands }

\* what may stand between a pair of parentheses
Inner ==
    Numerals \cup { <<"1", "6">>, <<"p", "i">> }
    \cup { a \o op \o b : a \in Numerals, op \in BinaryOperators, b \in Numerals }
    \cup { <<"-">> \o a : a \in {<<"1">>, <<"5">>} }
    \cup { <<"p", "i">> \o op \o <<"2">> : op \in {<<"+">>, <<"*">>} }

Before == { <<>>, <<"2", "*">>, <<"4", "/">> }

After == { <<>>, <<"*", "4">>, <<"+", "1">> }

Callee == { <<>>, <<"s", "q", "r", "t">>, <<"l", "o", "g">>, <<"l", "n">> }

\* [a op] [f] ( inner [)] [op b]
GroupInputs ==
    { b \o f \o <<"(">> \o x \o c \o a :
        b \in Before, f \in Callee, x \in Inner, c \in {<<")">>, <<>>}, a \in After }

\* a group inside a group
NestedInputs ==
    { b \o f \o <<"(">> \o y \o <<"(">> \o x \o <<")">> \o z \o <<")">> \o a :
        b \in {<<>>, <<"2", "*">>}, f \in {<<>>, <<"s", "q", "r", "t">>},
        y \in {<<>>, <<"3", "-">>, <<"2", "*">>, <<"l", "o", "g">>},
        x \in {<<"2", "+", "3">>, <<"4">>, <<"2", "-", "2">>},
        z \in {<<>>, <<"*", "4">>, <<"+", "2">>},
        a \in {<<>>, <<"+", "1">>} }

\* the expressions that the documentation of the engine gives as examples
ExampleInputs ==
    { <<"2", " ", "+", " ", "3", " ", "*", " ", "4">>,
      <<"1", "0", " ", "-", " ", "3", " ", "-", " ", "2">>,
      <<"(", "2", " ", "+", " ", "3", ")", " ", "*", " ", "4">>,
      <<"(", "1", " ", "+", " ", "2">>,
      <<"1", " ", "+", " ", "2", ")">>,
      <<"1", " ", "&", " ", "2">>,
      <<"1", " ", "+">>,
      <<"1", " ", "2">>,
      <<"5", " ", "/", " ", "0">>,
      <<"5", " ", "%", " ", "0">>,
      <<"5", " ", "/", " ", "(", "2", " ", "-", " ", "2", ")">>,
      <<"2", " ", "^", " ", "3", " ", "^", " ", "2">>,
      <<"s", "q", "r", "t", "(", "1", "6", ")", " ", "+", " ", "1">>,
      <<"2", " ", "*", " ", "s", "q", "r", "t", "(", "1", "6", ")">>,
      <<"S", "Q", "R", "T", "(", "1", "6", ")">>,
      <<"s", "q", "r", "t", "(", "0", " ", "-", " ", "1", ")">>,
      <<"l", "o", "g", "(", "2", " ", "-", " ", "2", ")">>,
      <<"l", "o", "g", "(", "1", "0", "0", ")">>,
      <<"4", " ", "/", " ", "2">>,
      <<"1", ".", "5", " ", "+", " ", ".", "5">>,
      <<"p", "i">>, <<"e">>,
      <<"p", "i", " ", "+", " ", "2">>,
      <<"2", " ", "+", " ", "p", "i">> }

Inputs ==
    FreeInputs \cup FlatInputs \cup GroupInputs \cup NestedInputs \cup ExampleInputs

Init ==
    /\ expression \in Inputs
    /\ tokens = <<>>
    /\ i = 1
    /\ values = <<>>
    /\ operators = <<>>
    /\ pc = "start"
    /\ result = Zero
    /\ err = NoErr
    /\ host = "off"
    /\ user_input = <<>>
    /\ last_result = [v |-> Zero, float |-> FALSE]
    /\ history = <<>>
    /\ eof = FALSE
    /\ lines = 0
    /\ printed = [kind |-> "none", e |-> NoErr]

Spec == Init /\ [][Next]_vars

TypeOK ==
    /\ pc \in {"idle", "start", "scan", "close", "oper", "drain", "done", "error"}
    /\ (pc = "error" \/ host = "raised") = (err # NoErr)
    /\ AllInRange(values)

(***************************************************************************)
(* main: the loop that reads a line, handles a command or evaluates an     *)
(* expression, and prints.  Python's int and float are told apart, for     *)
(* str prints them differently.                                            *)
(***************************************************************************)
\* most lines read in a run
MaxLines == 2

PyInt(v) == [v |-> v, float |-> FALSE]

PyFloat(v) == [v |-> v, float |-> TRUE]

DigitChars == <<"0", "1", "2", "3", "4", "5", "6", "7", "8", "9">>

RECURSIVE NatStr(_)
NatStr(n) ==
    IF n < 10 THEN <<DigitChars[n + 1]>>
    ELSE NatStr(n \div 10) \o <<DigitChars[(n % 10) + 1]>>

\* the digits after the point of r/d, for r < d, when there are finitely many
RECURSIVE FracStr(_, _)
FracStr(r, d) ==
    IF r = 0 THEN <<>>
    ELSE <<DigitChars[((10 * r) \div d) + 1]>> \o FracStr((10 * r) % d, d)

RECURSIVE Without(_, _)
Without(d, p) == IF d % p = 0 THEN Without(d \div p, p) ELSE d

\* the decimal expansion of the number is finite, so that str is exact
StrKnown(x) == IsRat(x.v) /\ Without(Without(x.v.d, 2), 5) = 1

\* str(last_result), line 306: an int is its digits, a float has a point
\* and at least one digit after it, and a negative number starts with -
Str(x) ==
    LET n    == Abs(x.v.n)
        d    == x.v.d
        sign == IF x.v.n < 0 THEN <<"-">> ELSE <<>>
    IN  IF ~x.float THEN sign \o NatStr(n)
        ELSE sign \o NatStr(n \div d) \o <<".">> \o
             (IF n % d = 0 THEN <<"0">> ELSE FracStr(n % d, d))

\* str.replace, line 306: every occurrence from left to right
RECURSIVE ReplaceFrom(_, _, _, _)
ReplaceFrom(s, k, old, new) ==
    IF k > Len(s) THEN <<>>
    ELSE IF k + Len(old) - 1 <= Len(s) /\ SubSeq(s, k, k + Len(old) - 1) = old
        THEN new \o ReplaceFrom(s, k + Len(old), old, new)
    ELSE <<s[k]>> \o ReplaceFrom(s, k + 1, old, new)

Replace(s, old, new) == ReplaceFrom(s, 1, old, new)

\* str.strip, line 265
RECURSIVE LStrip(_)
LStrip(s) == IF s # <<>> /\ Head(s) = " " THEN LStrip(Tail(s)) ELSE s

RECURSIVE RStrip(_)
RStrip(s) ==
    IF s # <<>> /\ s[Len(s)] = " " THEN RStrip(SubSeq(s, 1, Len(s) - 1)) ELSE s

Strip(s) == RStrip(LStrip(s))

\* str.split, line 289: the words between runs of spaces
RECURSIVE SplitFrom(_, _, _)
SplitFrom(s, k, w) ==
    IF k > Len(s) THEN (IF w = <<>> THEN <<>> ELSE <<w>>)
    ELSE IF s[k] = " "
        THEN (IF w = <<>> THEN <<>> ELSE <<w>>) \o SplitFrom(s, k + 1, <<>>)
    ELSE SplitFrom(s, k + 1, Append(w, s[k]))

Split(s) == SplitFrom(s, 1, <<>>)

StartsWith(s, p) == Len(s) >= Len(p) /\ SubSeq(s, 1, Len(p)) = p

\* float(parts[1]), line 292, of a word: an optional sign and a numeral.
\* A word that starts with a letter other than i and n is no number; the
\* other words that float accepts or rejects are not modelled.
Unsigned(s) == IF Head(s) \in {"+", "-"} THEN Tail(s) ELSE s

FloatAccepts(s) == Unsigned(s) # <<>> /\ IsNumber(Unsigned(s))

FloatRejects(s) == Head(s) \notin Digits \cup {".", "+", "-", "i", "n"}

FloatOf(s) ==
    LET f == Float(Unsigned(s))
    IN  IF Head(s) = "-" THEN Rat(0 - f.n, f.d) ELSE f

CouldNotConvert == ValueError("could not convert string to float")

CannotConvert == ValueError("Cannot convert from to")

EOFError == [cls |-> "EOFError", msg |-> "EOF when reading a line"]

\* lines 190-194: the temperature table
TemperatureUnits == { <<"c">>, <<"f">>, <<"k">> }

Kelvin == Rat(27315, 100)

Temperature(x, from, to) ==
    IF from = <<"c">> /\ to = <<"f">>
        THEN AddV(DivV(MulV(x, Rat(9, 1)), Rat(5, 1)), Rat(32, 1))
    ELSE IF from = <<"c">> /\ to = <<"k">>
        THEN AddV(x, Kelvin)
    ELSE IF from = <<"f">> /\ to = <<"c">>
        THEN DivV(MulV(SubV(x, Rat(32, 1)), Rat(5, 1)), Rat(9, 1))
    ELSE IF from = <<"f">> /\ to = <<"k">>
        THEN AddV(DivV(MulV(SubV(x, Rat(32, 1)), Rat(5, 1)), Rat(9, 1)), Kelvin)
    ELSE IF from = <<"k">> /\ to = <<"c">>
        THEN SubV(x, Kelvin)
    ELSE AddV(DivV(MulV(SubV(x, Kelvin), Rat(9, 1)), Rat(5, 1)), Rat(32, 1))

\* lines 197-212: the length and weight tables, as <<from, to, n, d>> for
\* x * n / d; a division by k is the multiplication by 1/k
Scales ==
    { <<<<"m">>, <<"c", "m">>, 100, 1>>,
      <<<<"m">>, <<"k", "m">>, 1, 1000>>,
      <<<<"m">>, <<"i", "n">>, 393701, 10000>>,
      <<<<"m">>, <<"f", "t">>, 328084, 100000>>,
      <<<<"m">>, <<"m", "i">>, 1000, 1609344>>,
      <<<<"c", "m">>, <<"m">>, 1, 100>>,
      <<<<"c", "m">>, <<"k", "m">>, 1, 100000>>,
      <<<<"c", "m">>, <<"i", "n">>, 100, 254>>,
      <<<<"c", "m">>, <<"f", "t">>, 100, 3048>>,
      <<<<"c", "m">>, <<"m", "i">>, 10, 1609344>>,
      <<<<"k", "m">>, <<"m">>, 1000, 1>>,
      <<<<"k", "m">>, <<"c", "m">>, 100000, 1>>,
      <<<<"k", "m">>, <<"i", "n">>, 393701, 10>>,
      <<<<"k", "m">>, <<"f", "t">>, 328084, 100>>,
      <<<<"k", "m">>, <<"m", "i">>, 100000, 160934>>,
      <<<<"i", "n">>, <<"m">>, 10000, 393701>>,
      <<<<"i", "n">>, <<"c", "m">>, 254, 100>>,
      <<<<"i", "n">>, <<"k", "m">>, 10, 393701>>,
      <<<<"i", "n">>, <<"f", "t">>, 1, 12>>,
      <<<<"i", "n">>, <<"m", "i">>, 1, 63360>>,
      <<<<"f", "t">>, <<"m">>, 100000, 328084>>,
      <<<<"f", "t">>, <<"c", "m">>, 3048, 100>>,
      <<<<"f", "t">>, <<"k", "m">>, 100, 328084>>,
      <<<<"f", "t">>, <<"i", "n">>, 12, 1>>,
      <<<<"f", "t">>, <<"m", "i">>, 1, 5280>>,
      <<<<"m", "i">>, <<"m">>, 1609344, 1000>>,
      <<<<"m", "i">>, <<"c", "m">>, 1609344, 10>>,
      <<<<"m", "i">>, <<"k", "m">>, 160934, 100000>>,
      <<<<"m", "i">>, <<"i", "n">>, 63360, 1>>,
      <<<<"m", "i">>, <<"f", "t">>, 5280, 1>>,
      <<<<"k", "g">>, <<"g">>, 1000, 1>>,
      <<<<"k", "g">>, <<"l", "b">>, 220462, 100000>>,
      <<<<"k", "g">>, <<"o", "z">>, 35274, 1000>>,
      <<<<"g">>, <<"k", "g">>, 1, 1000>>,
      <<<<"g">>, <<"l", "b">>, 1000, 453592>>,
      <<<<"g">>, <<"o", "z">>, 10000, 283495>>,
      <<<<"l", "b">>, <<"k", "g">>, 100000, 220462>>,
      <<<<"l", "b">>, <<"g">>, 453592, 1000>>,
      <<<<"l", "b">>, <<"o", "z">>, 16, 1>>,
      <<<<"o", "z">>, <<"k", "g">>, 1000, 35274>>,
      <<<<"o", "z">>, <<"g">>, 283495, 10000>>,
      <<<<"o", "z">>, <<"l", "b">>, 1, 16>> }

\* lines 187-220.  conv is "value" with the result, "error" when no table has
\* the pair of units, "range" when the factor is outside the model.
convert_units(value, from_unit, to_unit) ==
    IF from_unit \in TemperatureUnits /\ to_unit \in TemperatureUnits
          /\ from_unit # to_unit
        THEN [conv |-> "value", v |-> Temperature(value, from_unit, to_unit)]
    ELSE IF \E s \in Scales : s[1] = from_unit /\ s[2] = to_unit
        THEN LET s == CHOOSE s \in Scales : s[1] = from_unit /\ s[2] = to_unit
             IN  IF InRange(Rat(s[3], s[4]))
                 THEN [conv |-> "value", v |-> MulV(value, Rat(s[3], s[4]))]
                 ELSE [conv |-> "range", v |-> Zero]
    ELSE [conv |-> "error", v |-> Zero]

\* lines 149-168: one line is appended to the history file
save_history(calculation, res) ==
    Append(history, [calculation |-> calculation, result |-> res])

\* what print last wrote
Printed(kind, e) == [kind |-> kind, e |-> e]

\* the lines that are typed
HostLines ==
    { <<"e", "x", "i", "t">>,
      <<"Q", "U", "I", "T">>,
      <<"h", "e", "l", "p">>,
      <<"h", "i", "s", "t", "o", "r", "y">>,
      <<"c", "l", "e", "a", "r">>,
      <<>>,
      <<"c", "o", "n", "v", "e", "r", "t", " ", "0", " ", "c", " ", "t", "o", " ", "f">>,
      <<"c", "o", "n", "v", "e", "r", "t", " ", "-", "4", "0", " ", "f", " ", "t", "o", " ", "c">>,
      <<"c", "o", "n", "v", "e", "r", "t", " ", "5", " ", "m", " ", "t", "o", " ", "c", "m">>,
      <<"c", "o", "n", "v", "e", "r", "t", " ", "1", " ", "c", " ", "t", "o", " ", "x">>,
      <<"c", "o", "n", "v", "e", "r", "t", " ", "x", " ", "c", " ", "t", "o", " ", "f">>,
      <<"c", "o", "n", "v", "e", "r", "t", " ", "1", " ", "m">>,
      <<"0", " ", "-", " ", "3">>,
      <<"a", "n", "s">>,
      <<"1", " ", "+">>,
      <<"5", " ", "%", " ", "0">>,
      <<"(", "2", " ", "+", " ", "3", ")", " ", "*", " ", "4">>,
      <<"1", " ", "+", " ", "2", ")">>,
      <<"2", " ", "*", " ", "3", " ", "+", " ", "1">>,
      <<"1", " ", "/", " ", "2">>,
      <<" ", "a", "n", "s", " ", "+", " ", "1", " ">> }

\* line 265: input returns the line that was typed, and strip trims it
Reads(line) ==
    /\ host = "prompt"
    /\ ~eof
    /\ lines < MaxLines
    /\ user_input' = Strip(line)
    /\ lines' = lines + 1
    /\ UNCHANGED eof

IsExit(u) == Lower(u) \in { <<"e", "x", "i", "t">>, <<"q", "u", "i", "t">> }

IsHelp(u) == Lower(u) = <<"h", "e", "l", "p">>

IsHistory(u) == Lower(u) = <<"h", "i", "s", "t", "o", "r", "y">>

IsClear(u) == Lower(u) = <<"c", "l", "e", "a", "r">>

IsConvert(u) == StartsWith(Lower(u), <<"c", "o", "n", "v", "e", "r", "t", " ">>)

IsCommand(u) == IsExit(u) \/ IsHelp(u) \/ IsHistory(u) \/ IsClear(u) \/ IsConvert(u)

\* lines 267-269
ReadExit ==
    \E line \in HostLines :
        /\ Reads(line)
        /\ IsExit(Strip(line))
        /\ printed' = Printed("goodbye", NoErr)
        /\ host' = "exited"
        /\ UNCHANGED <<last_result, history, evars>>

\* lines 271-272
ReadHelp ==
    \E line \in HostLines :
        /\ Reads(line)
        /\ IsHelp(Strip(line))
        /\ printed' = Printed("help", NoErr)
        /\ UNCHANGED <<host, last_result, history, evars>>

\* lines 274-282
ReadHistory ==
    \E line \in HostLines :
        /\ Reads(line)
        /\ IsHistory(Strip(line))
        /\ printed' = Printed(IF history = <<>> THEN "no history" ELSE "history", NoErr)
        /\ UNCHANGED <<host, last_result, history, evars>>

\* lines 284-286
ReadClear ==
    \E line \in HostLines :
        /\ Reads(line)
        /\ IsClear(Strip(line))
        /\ printed' = Printed("banner", NoErr)
        /\ UNCHANGED <<host, last_result, history, evars>>

\* the calculation that line 301 writes to the history
ConvertText(value, from_unit, to_unit) ==
    <<"c", "o", "n", "v", "e", "r", "t", " ">> \o Str(PyFloat(value)) \o <<" ">>
        \o from_unit \o <<" ", "t", "o", " ">> \o to_unit

\* lines 288-303: the ValueError of float or of convert_units is caught
\* inside the branch
ReadConvert ==
    \E line \in HostLines :
        LET parts == Split(Lower(Strip(line)))
        IN  /\ Reads(line)
            /\ ~IsExit(Strip(line)) /\ ~IsHelp(Strip(line))
            /\ ~IsHistory(Strip(line)) /\ ~IsClear(Strip(line))
            /\ IsConvert(Strip(line))
            /\ IF Len(parts) = 5 /\ parts[4] = <<"t", "o">>
               THEN IF FloatAccepts(parts[2])
                    THEN LET value == FloatOf(parts[2])
                             c     == convert_units(value, parts[3], parts[5])
                         IN  /\ InRange(value)
                             /\ c.conv # "range"
                             /\ IF c.conv = "value"
                                THEN /\ InRange(c.v)
                                     /\ last_result' = PyFloat(c.v)
                                     /\ history' = save_history(
                                            ConvertText(value, parts[3], parts[5]),
                                            PyFloat(c.v))
                                     /\ printed' = Printed("conversion", NoErr)
                                ELSE /\ printed' = Printed("error", CannotConvert)
                                     /\ UNCHANGED <<last_result, history>>
                    ELSE /\ FloatRejects(parts[2])
                         /\ printed' = Printed("error", CouldNotConvert)
                         /\ UNCHANGED <<last_result, history>>
               ELSE /\ printed' = Printed("usage", NoErr)
                    /\ UNCHANGED <<last_result, history>>
            /\ UNCHANGED <<host, evars>>

\* line 305: an empty line is passed over
ReadBlank ==
    \E line \in HostLines :
        /\ Reads(line)
        /\ Strip(line) = <<>>
        /\ UNCHANGED <<host, last_result, history, printed, evars>>

Ans == <<"a", "n", "s">>

HasAns(u) == Replace(u, Ans, <<>>) # u

\* lines 305-307: any other line is an expression; ans is replaced by the
\* text of last_result and evaluate is called
ReadExpression ==
    \E line \in HostLines :
        /\ Reads(line)
        /\ Strip(line) # <<>>
        /\ ~IsCommand(Strip(line))
        /\ HasAns(Strip(line)) => StrKnown(last_result)
        /\ expression' = IF HasAns(Strip(line))
                         THEN Replace(Strip(line), Ans, Str(last_result))
                         ELSE Strip(line)
        /\ pc' = "start"
        /\ host' = "eval"
        /\ UNCHANGED <<tokens, i, values, operators, result, err>>
        /\ UNCHANGED <<last_result, history, printed>>

\* lines 309-317: evaluate has returned; an integral result becomes an int
PrintResult ==
    /\ host = "eval"
    /\ pc = "done"
    /\ IsRat(result)
    /\ last_result' = IF result.d = 1 THEN PyInt(result) ELSE PyFloat(result)
    /\ history' = save_history(user_input, last_result')
    /\ printed' = Printed("result", NoErr)
    /\ host' = "prompt"
    /\ pc' = "idle"
    /\ UNCHANGED <<expression, tokens, i, values, operators, result, err>>
    /\ UNCHANGED <<user_input, eof, lines>>

\* lines 319-322: a ValueError is reported as an error, any other exception
\* as an unexpected error, and the loop goes on
Except ==
    /\ \/ host = "eval" /\ pc = "error"
       \/ host = "raised"
    /\ printed' = Printed(IF err.cls = "ValueError" THEN "error" ELSE "unexpected", err)
    /\ host' = "prompt"
    /\ pc' = "idle"
    /\ err' = NoErr
    /\ UNCHANGED <<expression, tokens, i, values, operators, result>>
    /\ UNCHANGED <<user_input, last_result, history, eof, lines>>

\* standard input ends: nothing more will be typed
InputClosed ==
    /\ host = "prompt"
    /\ ~eof
    /\ eof' = TRUE
    /\ UNCHANGED <<host, user_input, last_result, history, lines, printed, evars>>

\* line 265: at the end of standard input, input raises EOFError
ReadEOF ==
    /\ host = "prompt"
    /\ eof
    /\ err' = EOFError
    /\ host' = "raised"
    /\ UNCHANGED <<expression, tokens, i, values, operators, pc, result>>
    /\ UNCHANGED <<user_input, last_result, history, eof, lines, printed>>

\* the steps main takes by itself, without waiting for a line
Program ==
    \/ Next
    \/ PrintResult
    \/ Except
    \/ ReadEOF

HostNext ==
    \/ ReadExit
    \/ ReadHelp
    \/ ReadHistory
    \/ ReadClear
    \/ ReadConvert
    \/ ReadBlank
    \/ ReadExpression
    \/ InputClosed
    \/ ReadEOF
    \/ PrintResult
    \/ Except
    \/ Tokenize
    \/ ScanPush
    \/ ScanCloseParen
    \/ CloseApply
    \/ CloseMatch
    \/ CloseMismatch
    \/ ScanOperator
    \/ OperApply
    \/ OperPush
    \/ EndScan
    \/ DrainApply
    \/ Finish

\* lines 257-263
HostInit ==
    /\ host = "prompt"
    /\ user_input = <<>>
    /\ last_result = PyInt(Zero)
    /\ history = <<>>
    /\ eof = FALSE
    /\ lines = 0
    /\ printed = Printed("banner", NoErr)
    /\ expression = <<>>
    /\ tokens = <<>>
    /\ i = 1
    /\ values = <<>>
    /\ operators = <<>>
    /\ pc = "idle"
    /\ result = Zero
    /\ err = NoErr

HostSpec == HostInit /\ [][HostNext]_vars

\* main runs on whenever it can: only the typing of a line, and the end of
\* standard input, are not up to it
FairHostSpec == HostSpec /\ WF_vars(Program)

(***************************************************************************)
(* What the claims are stated with.                                        *)
(***************************************************************************)
\* evaluate has tokenized its input
Tokenized == pc # "start"

\* the text is made of tokens and spaces only, and no space stands inside
\* what is then read as one token
PlainText(e) ==
    /\ Cat(tokenize(e)) = RemoveSpaces(e)
    /\ FindAll([k \in 1..Len(e) |-> IF e[k] = " " THEN "&" ELSE e[k]], 1) = tokenize(e)

\* the outcome of the one operation  left op right  or  f(v): the stack of
\* values it leaves, and the exception
OneOp(op, args) == apply_operator(<<op>>, args)

OpDefined(op, args) ==
    LET r == OneOp(op, args) IN r.ok /\ r.err = NoErr /\ AllInRange(r.vals)

OpValue(op, args) == OneOp(op, args).vals[1]

\* numerals and binary operators of the set ops alternate: n op n op ... n
IsFlat(ts, ops) ==
    /\ Len(ts) % 2 = 1
    /\ \A k \in 1..Len(ts) :
         IF k % 2 = 1 THEN IsNumber(ts[k]) ELSE ts[k] \in ops

\* a flat token sequence as items: values at the odd places, operators at
\* the even ones
ItemsOf(ts) == [k \in 1..Len(ts) |-> IF k % 2 = 1 THEN Float(ts[k]) ELSE ts[k]]

\* the leftmost operator of the set ops among the items, 0 if there is none
Leftmost(items, ops) ==
    IF \E k \in 1..Len(items) : k % 2 = 0 /\ items[k] \in ops
    THEN CHOOSE k \in 1..Len(items) :
           /\ k % 2 = 0 /\ items[k] \in ops
           /\ \A h \in 1..(k - 1) : ~(h % 2 = 0 /\ items[h] \in ops)
    ELSE 0

\* reduce the operators of the set ops from left to right; <<>> when an
\* operation has no value
RECURSIVE ReduceAll(_, _)
ReduceAll(items, ops) ==
    LET k == Leftmost(items, ops)
    IN  IF items = <<>> \/ k = 0 THEN items
        ELSE IF ~OpDefined(items[k], <<items[k - 1], items[k + 1]>>) THEN <<>>
        ELSE ReduceAll(SubSeq(items, 1, k - 2)
                         \o <<OpValue(items[k], <<items[k - 1], items[k + 1]>>)>>
                         \o SubSeq(items, k + 2, Len(items)), ops)

\* standard precedence on a flat sequence over + - * /: first every * and /,
\* then every + and -, each left to right
Standard(ts) ==
    ReduceAll(ReduceAll(ItemsOf(ts), {<<"*">>, <<"/">>}), {<<"+">>, <<"-">>})

\* some division of the standard reduction is by zero
RECURSIVE DividesByZero(_, _)
DividesByZero(items, ops) ==
    LET k == Leftmost(items, ops)
    IN  IF items = <<>> \/ k = 0 THEN FALSE
        ELSE IF items[k] = <<"/">> /\ items[k + 1] = Zero THEN TRUE
        ELSE IF ~OpDefined(items[k], <<items[k - 1], items[k + 1]>>) THEN FALSE
        ELSE DividesByZero(SubSeq(items, 1, k - 2)
                         \o <<OpValue(items[k], <<items[k - 1], items[k + 1]>>)>>
                         \o SubSeq(items, k + 2, Len(items)), ops)

FourOps == {<<"+">>, <<"-">>, <<"*">>, <<"/">>}

\* evaluate has returned or raised
Finished == pc \in {"done", "error"}

FlatFour == Finished /\ IsFlat(tokens, FourOps) /\ PlainText(expression)

\* C1: for an expression of numerals and + - * / without parentheses,
\* evaluate returns the value of the standard precedence (every * and /
\* before the + and - around it, equal precedence left to right), and it
\* fails, with the division by zero error, only when a division of that
\* reduction is by zero.
C1_StandardPrecedence ==
    FlatFour =>
        /\ pc = "done" => Standard(tokens) = <<result>>
        /\ pc = "error" => /\ err = DivisionByZero
                           /\ DividesByZero(ItemsOf(tokens), {<<"*">>, <<"/">>})

\* 2 + 3 * 4 has given 14
C1_Witness ==
    /\ pc = "done"
    /\ expression = <<"2", " ", "+", " ", "3", " ", "*", " ", "4">>
    /\ result = Rat(14, 1)

(***************************************************************************)
(* The value of a well-formed expression, by the grammar of the spec:      *)
(*   expr    ::= term  { addop term }      addop is + or -                 *)
(*   term    ::= power { mulop power }     mulop is *, / or %              *)
(*   power   ::= primary { ^ primary }                                     *)
(*   primary ::= number | constant | ( expr ) | function ( expr )          *)
(* with every level reduced left to right.  A parse is a record: ok (the   *)
(* tokens from the position are of the grammar), def (every operation has  *)
(* a value), v (the value) and p (the position after the phrase).          *)
(***************************************************************************)
NoParse == [ok |-> FALSE, def |-> FALSE, v |-> Zero, p |-> 0]

Parsed(v, p) == [ok |-> TRUE, def |-> TRUE, v |-> v, p |-> p]

\* the parse of  l op r  ending where r ends
Combine(op, l, r) ==
    IF ~r.ok THEN NoParse
    ELSE IF l.def /\ r.def /\ OpDefined(op, <<l.v, r.v>>)
         THEN Parsed(OpValue(op, <<l.v, r.v>>), r.p)
         ELSE [ok |-> TRUE, def |-> FALSE, v |-> Zero, p |-> r.p]

\* the parse of f(x) ending at position p
Call(f, x, p) ==
    IF x.def /\ OpDefined(f, <<x.v>>) THEN Parsed(OpValue(f, <<x.v>>), p)
    ELSE [ok |-> TRUE, def |-> FALSE, v |-> Zero, p |-> p]

RECURSIVE ParseExpr(_, _), ExprRest(_, _), ParseTerm(_, _), TermRest(_, _),
          ParsePower(_, _), PowerRest(_, _), ParsePrimary(_, _)

ParsePrimary(ts, p) ==
    IF p > Len(ts) THEN NoParse
    ELSE IF IsNumber(ts[p]) THEN
        IF InRange(Float(ts[p])) THEN Parsed(Float(ts[p]), p + 1)
        ELSE [ok |-> TRUE, def |-> FALSE, v |-> Zero, p |-> p + 1]
    ELSE IF ts[p] \in ConstantNames THEN Parsed(OpValue(ts[p], <<>>), p + 1)
    ELSE IF ts[p] = <<"(">> THEN
        LET x == ParseExpr(ts, p + 1)
        IN  IF x.ok /\ x.p <= Len(ts) /\ ts[x.p] = <<")">>
            THEN [x EXCEPT !.p = x.p + 1] ELSE NoParse
    ELSE IF ts[p] \in FunctionNames /\ p + 1 <= Len(ts) /\ ts[p + 1] = <<"(">> THEN
        LET x == ParseExpr(ts, p + 2)
        IN  IF x.ok /\ x.p <= Len(ts) /\ ts[x.p] = <<")">>
            THEN Call(ts[p], x, x.p + 1) ELSE NoParse
    ELSE NoParse

PowerRest(ts, l) ==
    IF l.ok /\ l.p <= Len(ts) /\ ts[l.p] = <<"^">>
    THEN PowerRest(ts, Combine(ts[l.p], l, ParsePrimary(ts, l.p + 1)))
    ELSE l

ParsePower(ts, p) == PowerRest(ts, ParsePrimary(ts, p))

TermRest(ts, l) ==
    IF l.ok /\ l.p <= Len(ts) /\ ts[l.p] \in {<<"*">>, <<"/">>, <<"%">>}
    THEN TermRest(ts, Combine(ts[l.p], l, ParsePower(ts, l.p + 1)))
    ELSE l

ParseTerm(ts, p) == TermRest(ts, ParsePower(ts, p))

ExprRest(ts, l) ==
    IF l.ok /\ l.p <= Len(ts) /\ ts[l.p] \in {<<"+">>, <<"-">>}
    THEN ExprRest(ts, Combine(ts[l.p], l, ParseTerm(ts, l.p + 1)))
    ELSE l

ParseExpr(ts, p) == ExprRest(ts, ParseTerm(ts, p))

\* the token sequence is one expression of the grammar
WellFormed(ts) == LET x == ParseExpr(ts, 1) IN x.ok /\ x.p = Len(ts) + 1

\* ... and every operation in it has a value
HasValue(ts) == WellFormed(ts) /\ ParseExpr(ts, 1).def

ValueOf(ts) == ParseExpr(ts, 1).v

\* the operator stack that the next step hands to apply_operator, <<>> when
\* the next step does not call it
ApplyStack ==
    IF pc = "drain" THEN operators
    ELSE IF pc = "oper" /\ Reduces(operators, token) THEN operators
    ELSE IF pc = "close" /\ operators # <<>> /\ Top(operators) # <<"(">> THEN operators
    ELSE IF pc = "close" /\ Len(operators) >= 2 /\ Top(operators) = <<"(">>
            /\ Top(Pop(operators)) \in FunctionNames THEN Pop(operators)
    ELSE <<>>

\* the next step applies the operator or function op
Applies(op) == ApplyStack # <<>> /\ Top(ApplyStack) = op

HasParen(ts) == \E k \in 1..Len(ts) : ts[k] = <<"(">>

\* the number of '(' before position p that no ')' before p has closed, and
\* -1 once a ')' had no '(' to close
RECURSIVE OpenAt(_, _)
OpenAt(ts, p) ==
    IF p <= 1 THEN 0
    ELSE LET d == OpenAt(ts, p - 1)
         IN  IF d < 0 THEN d
             ELSE IF ts[p - 1] = <<"(">> THEN d + 1
             ELSE IF ts[p - 1] = <<")">> THEN d - 1
             ELSE d

\* some '(' of the token sequence is never closed
Unclosed(ts) == OpenAt(ts, Len(ts) + 1) > 0

\* some ')' of the token sequence closes no '('
Unopened(ts) == OpenAt(ts, Len(ts) + 1) < 0

\* C2: parentheses override precedence: whenever evaluate returns for a
\* well-formed expression with parentheses, the result is the value in
\* which every parenthesized sub-expression is reduced to one operand
\* before an operator outside the parentheses is applied to it.
C2_ParenthesesOverride ==
    (pc = "done" /\ HasParen(tokens) /\ HasValue(tokens) /\ PlainText(expression))
        => result = ValueOf(tokens)

\* C3: an expression with an open parenthesis that is never closed fails
\* with the mismatched parentheses error and returns no result.
C3_UnclosedParenFails ==
    (Finished /\ Unclosed(tokens)) => (pc = "error" /\ err = MismatchedParens)

\* C4: tokenize returns only when every character of the text apart from
\* the spaces belongs to a token: no character is silently dropped.
C4_TokenizeRejectsUnrecognized ==
    Tokenized => Cat(tokens) = RemoveSpaces(Lower(expression))

\* the tokens are  f ( - n )  for a numeral n > 0
NegatedArgument(ts, f) ==
    /\ Len(ts) = 5
    /\ ts[1] = f /\ ts[2] = <<"(">> /\ ts[3] = <<"-">> /\ ts[5] = <<")">>
    /\ IsNumber(ts[4]) /\ Sgn(Float(ts[4])) > 0

\* the tokens are  f ( 0 )
ZeroArgument(ts, f) ==
    /\ Len(ts) = 4
    /\ ts[1] = f /\ ts[2] = <<"(">> /\ ts[4] = <<")">>
    /\ IsNumber(ts[3]) /\ Sgn(Float(ts[3])) = 0

\* C5: sqrt(-n) fails with the negative square root error, ln(-n) and
\* log(0) with the non-positive logarithm error, and with no other error.
C5_DomainErrors ==
    Finished =>
        /\ NegatedArgument(tokens, <<"s", "q", "r", "t">>)
              => (pc = "error" /\ err = NegativeSqrt)
        /\ NegatedArgument(tokens, <<"l", "n">>)
              => (pc = "error" /\ err \in {NonPositiveLn, NonPositiveLog})
        /\ ZeroArgument(tokens, <<"l", "o", "g">>)
              => (pc = "error" /\ err = NonPositiveLog)

\* the next step applies the binary operator op to a right operand of zero
AppliesToZero(op) ==
    /\ Applies(op)
    /\ Len(values) >= 2
    /\ SignKnown(Top(values)) /\ Sgn(Top(values)) = 0

\* C6: applying % with a right operand of zero fails with an error of the
\* evaluator's own class, the class of its other failures.
C6_ModuloByZeroTyped ==
    [][AppliesToZero(<<"%">>) => (pc' = "error" /\ err'.cls = "ValueError")]_vars

\* C7: applying / with a right operand of zero fails with the division by
\* zero error, and the application pushes no value: the operand stack is
\* left without the two operands.
C7_DivisionByZero ==
    [][AppliesToZero(<<"/">>) =>
          /\ pc' = "error"
          /\ err' = DivisionByZero
          /\ values' = Pop(Pop(values))]_vars

\* 4/(2-2): the zero came from a sub-expression
C7_Witness ==
    /\ pc = "error"
    /\ err = DivisionByZero
    /\ expression = <<"4", "/", "(", "2", "-", "2", ")">>
    /\ values = <<>>

\* every operator of the flat token sequence has the same precedence
OneLevel(ts) ==
    \A k, h \in 1..Len(ts) :
        (k % 2 = 0 /\ h % 2 = 0) => precedence(ts[k]) = precedence(ts[h])

\* C8: binary operators of equal precedence, ^ included, are reduced left
\* to right: an arriving operator makes a top of the operator stack of the
\* same or a higher precedence be applied before it is pushed, and a chain
\* a op b op c of one precedence has the value of (a op b) op c.
C8_LeftToRight ==
    /\ [][(pc = "oper" /\ operators # <<>> /\ InPrecedence(Top(operators))
             /\ precedence(Top(operators)) >= precedence(token))
          => (operators' = Pop(operators) /\ pc' \in {"oper", "error"})]_vars
    /\ [](Finished /\ IsFlat(tokens, BinaryOperators) /\ OneLevel(tokens)
             /\ PlainText(expression)
          => /\ pc = "done" => ReduceAll(ItemsOf(tokens), BinaryOperators) = <<result>>
             /\ pc = "error" => ReduceAll(ItemsOf(tokens), BinaryOperators) = <<>>)

\* 2 ^ 3 ^ 2 has given 64
C8_Witness ==
    /\ pc = "done"
    /\ expression = <<"2", " ", "^", " ", "3", " ", "^", " ", "2">>
    /\ result = Rat(64, 1)

\* the position of the '(' that the ')' at position p closes, 0 if none
RECURSIVE OpenOf(_, _, _)
OpenOf(ts, p, depth) ==
    IF p < 1 THEN 0
    ELSE IF ts[p] = <<")">> THEN OpenOf(ts, p - 1, depth + 1)
    ELSE IF ts[p] = <<"(">> THEN
        (IF depth = 0 THEN p ELSE OpenOf(ts, p - 1, depth - 1))
    ELSE OpenOf(ts, p - 1, depth)

\* the tokens between the ')' at position i and the '(' it closes
Argument == SubSeq(tokens, OpenOf(tokens, i - 1, 0) + 1, i - 1)

\* the next step pops the '(' that follows the function f directly
ClosesCallOf(f) ==
    /\ pc = "close"
    /\ Len(operators) >= 2
    /\ Top(operators) = <<"(">>
    /\ Top(Pop(operators)) = f
    /\ OpenOf(tokens, i - 1, 0) >= 2
    /\ tokens[OpenOf(tokens, i - 1, 0) - 1] = f

\* C9: when the ')' that closes the '(' directly after a function is
\* processed, the function is applied at once, to the value of the
\* parenthesized argument: the step leaves f(argument) on top of the
\* operands and the operators as they were under the function, or fails
\* because the argument is outside the function's domain.
C9_FunctionAppliesToArgument ==
    [][\A f \in FunctionNames :
          (ClosesCallOf(f) /\ HasValue(Argument)) =>
              IF OpDefined(f, <<ValueOf(Argument)>>)
              THEN /\ pc' = "scan"
                   /\ operators' = Pop(Pop(operators))
                   /\ values' # <<>>
                   /\ Top(values') = OpValue(f, <<ValueOf(Argument)>>)
              ELSE pc' = "error"]_vars

\* C10: a ')' that finds the operator stack empty before a '(' fails with
\* the mismatched parentheses error, and an expression with a ')' that
\* closes no '(' returns no result.
C10_UnopenedParenFails ==
    /\ [][(pc = "close" /\ operators = <<>>)
            => (pc' = "error" /\ err' = MismatchedParens)]_vars
    /\ [](Finished /\ Unopened(tokens) => pc = "error")

\* 1 + 2) has failed with the mismatched parentheses error
C10_Witness ==
    /\ pc = "error"
    /\ err = MismatchedParens
    /\ expression = <<"1", " ", "+", " ", "2", ")">>

\* C11: an operator of + - * / ^ % that is applied with fewer than two
\* operands, and a function that is applied with none, fail with the
\* not-enough-operands error: the step computes nothing, leaves the operands
\* as they were and no result is ever returned.
C11_InsufficientOperands ==
    /\ [][(ApplyStack # <<>> /\ Top(ApplyStack) \in BinaryOperators
              /\ Len(values) < 2)
            => (pc' = "error" /\ err' = NotEnoughOp /\ values' = values)]_vars
    /\ [][(ApplyStack # <<>> /\ Top(ApplyStack) \in FunctionNames
              /\ values = <<>>)
            => (pc' = "error" /\ err' = NotEnoughFn /\ values' = values)]_vars
    /\ [](err \in {NotEnoughOp, NotEnoughFn} => pc = "error")

\* 1 + has failed for want of the right operand of +
C11_Witness ==
    /\ pc = "error"
    /\ err = NotEnoughOp
    /\ values = <<Rat(1, 1)>>
    /\ expression = <<"1", " ", "+">>

\* C12: the tokens of a text, written one after the other, tokenize to the
\* same tokens again.
C12_TokenizeRoundTrip ==
    Tokenized => tokenize(Cat(tokens)) = tokens

\* what is left to do: the tokens not yet consumed weigh more than anything
\* one of them can put on the operator stack, each operator on the stack is
\* one apply step, and the places of the loops come last
Rank ==
    IF pc = "scan" THEN 2 ELSE IF pc \in {"close", "oper", "drain"} THEN 1 ELSE 0

Measure ==
    IF pc = "start" THEN 5 * (Len(expression) + 2)
    ELSE 5 * (Len(tokens) + 1 - i) + 2 * Len(operators) + Rank

\* C14: evaluate terminates.  Every step takes the measure down and the
\* measure never goes below zero, so no run has more steps than the measure
\* of its first state; every apply step takes exactly one entry off the
\* operator stack and leaves the position in the tokens alone; a step that
\* returns to the scanning loop has consumed exactly one token; and the
\* draining loop is left with an empty operator stack or with an error.
C14_Terminates ==
    /\ [](Measure >= 0)
    /\ [][Measure' < Measure]_vars
    /\ [][ApplyStack # <<>>
            => (operators' = Pop(ApplyStack) /\ i' = IF pc' = "scan" THEN i + 1 ELSE i)]_vars
    /\ [][(pc # "start" /\ pc' = "scan") => i' = i + 1]_vars
    /\ [][(pc = "drain" /\ pc' # "drain") => (operators = <<>> \/ pc' = "error")]_vars

\* 2 + 3 * 4 has been drained: both operators were applied one at a time
C14_Witness ==
    /\ pc = "done"
    /\ operators = <<>>
    /\ i = Len(tokens) + 1
    /\ Len(tokens) = 5
    /\ expression = <<"2", " ", "+", " ", "3", " ", "*", " ", "4">>

\* the text e is two numerals with nothing but spaces, and at least one,
\* between them
TwoNumerals(e) ==
    \E p \in 1..Len(e), q \in 1..Len(e) :
        /\ 1 < p /\ p <= q /\ q < Len(e)
        /\ \A k \in p..q : e[k] = " "
        /\ IsNumber(SubSeq(e, 1, p - 1))
        /\ IsNumber(SubSeq(e, q + 1, Len(e)))

\* C15: two numerals with only white space between them, such as 1 2, are
\* rejected with the invalid expression error and never return a number.
C15_AdjacentNumeralsFail ==
    (Finished /\ TwoNumerals(expression)) =>
        (pc = "error" /\ err = InvalidExpression)

\* an operand computed by a sub-expression is outside the domain of f
OutsideDomain(f, v) ==
    \/ f = <<"s", "q", "r", "t">> /\ Sgn(v) < 0
    \/ f = <<"l", "o", "g">> /\ Sgn(v) <= 0
    \/ f = <<"l", "n">> /\ Sgn(v) <= 0

ErrorOf(f) ==
    IF f = <<"s", "q", "r", "t">> THEN NegativeSqrt
    ELSE IF f = <<"l", "o", "g">> THEN NonPositiveLog
    ELSE NonPositiveLn

\* C16: when sqrt, log or ln is applied to an operand outside its domain
\* (sqrt of a negative, log or ln of a value that is not positive) the step
\* fails with the domain error of that function and pushes nothing: the
\* operand is gone and the operands under it are as they were.  When the
\* operand is inside the domain, the step pops that one operand and pushes
\* one value in its place.  The operand may be the value of a sub-expression.
C16_FunctionDomain ==
    [][\A f \in {<<"s", "q", "r", "t">>, <<"l", "o", "g">>, <<"l", "n">>} :
          (Applies(f) /\ values # <<>> /\ SignKnown(Top(values))) =>
              IF OutsideDomain(f, Top(values))
              THEN /\ pc' = "error"
                   /\ err' = ErrorOf(f)
                   /\ values' = Pop(values)
              ELSE /\ pc' # "error"
                   /\ err' = NoErr
                   /\ Len(values') = Len(values)
                   /\ Pop(values') = Pop(values)
                   /\ Top(values') = OpValue(f, <<Top(values)>>)]_vars

\* sqrt(0 - 1) has failed on the value -1 of its argument
C16_Witness ==
    /\ pc = "error"
    /\ err = NegativeSqrt
    /\ values = <<>>
    /\ expression = <<"s", "q", "r", "t", "(", "0", " ", "-", " ", "1", ")">>

\* C17: when evaluate returns, every token has been consumed, the operator
\* stack is empty and the operand stack holds exactly the returned value;
\* when the loops end with any other number of operands, evaluate fails
\* with the invalid expression error and returns nothing.
C17_FinalShape ==
    /\ [](pc = "done" =>
            /\ i = Len(tokens) + 1
            /\ operators = <<>>
            /\ values = <<result>>)
    /\ [][(pc = "drain" /\ operators = <<>> /\ Len(values) # 1)
            => (pc' = "error" /\ err' = InvalidExpression /\ result' = result)]_vars
    /\ [][(pc = "drain" /\ pc' = "done") => Len(values) = 1]_vars

\* (2)(2) has left two operands and has failed
C17_Witness ==
    /\ pc = "error"
    /\ err = InvalidExpression
    /\ Len(values) = 2
    /\ operators = <<>>
    /\ i = Len(tokens) + 1

\* C18: a constant may stand on either side of + or *: with the constant
\* first, as in pi + 2, evaluate succeeds and returns the sum or product
\* that it returns with the numeral first.
C18_ConstantEitherSide ==
    \A c \in ConstantNames, op \in {<<"+">>, <<"*">>} :
        (Finished /\ Len(tokens) = 3 /\ tokens[1] = c /\ tokens[2] = op
            /\ IsNumber(tokens[3])) =>
            /\ pc = "done"
            /\ result = OpValue(op, <<Float(tokens[3]), Sym(c, <<>>)>>)

\* C13: an expression that fails neither ends the loop nor leaves anything
\* behind.  From the reading of the line to the report of the failure,
\* last_result and the history stay as they were; the report returns to the
\* prompt; the loop is only ever left by exit or quit; and every call of
\* evaluate starts to scan with empty stacks, whatever the call before it
\* left on them.
C13_FailureLeavesLoopIntact ==
    /\ [][(host = "eval" /\ pc # "done")
            => (last_result' = last_result /\ history' = history)]_vars
    /\ [][(host = "prompt" /\ host' = "eval")
            => (last_result' = last_result /\ history' = history)]_vars
    /\ [][(host = "eval" /\ pc = "error")
            => (host' = "prompt" /\ printed'.kind \in {"error", "unexpected"}
                /\ printed'.e = err)]_vars
    /\ [][(host = "eval" /\ pc = "start" /\ pc' # "start")
            => (pc' = "scan" /\ i' = 1 /\ values' = <<>> /\ operators' = <<>>)]_vars
    /\ [](host = "exited" => IsExit(user_input))

\* 1 + has failed and left its operand behind; nothing was recorded, and the
\* next expression has been read and starts with empty stacks
C13_Witness ==
    /\ host = "eval"
    /\ pc = "scan"
    /\ i = 1
    /\ values = <<>>
    /\ operators = <<>>
    /\ printed = Printed("error", NotEnoughOp)
    /\ last_result = PyInt(Zero)
    /\ history = <<>>
    /\ lines = 2
    /\ user_input = <<"1", " ", "/", " ", "2">>

\* C19: the line ans, after last_result was set to r, evaluates to r: the
\* evaluation succeeds and its result is the value of last_result, whatever
\* the sign of r.
C19_AnsRoundTrip ==
    (host = "eval" /\ user_input = Ans /\ Finished) =>
        (pc = "done" /\ result = last_result.v)

\* C20: once standard input has ended, main leaves its loop.
C20_EndOfInputTerminates == eof ~> (host = "exited")

====
